---- MODULE Spec2Model ----
(***************************************************************************)
(* Route-path compiler and matcher of the `genuine` router                 *)
(* (src/src/router/routes/paths.rs), and the routing of a request over    *)
(* the routes of an App (src/src/app/mod.rs, src/src/router/groups.rs,    *)
(* src/src/router/mod.rs).  Strings are sequences of byte                  *)
(* values (0..255); Rust's 0-based cursor c addresses the TLA+ element     *)
(* c + 1.  Every parser method is an operator from a parser record         *)
(* [bytes, anchor, cursor] to a result record carrying the parser after    *)
(* the call, so that cursor side effects of failed alternatives are kept.  *)
(***************************************************************************)
EXTENDS Integers, Sequences, FiniteSets, TLC

VARIABLES pc, pattern, compiled, request, matched, parser, captured, uri,
          router, method, routed, group

vars == <<pc, pattern, compiled, request, matched, parser, captured, uri,
          router, method, routed, group>>

(***************************************************************************)
(* Byte values named in the source.                                        *)
(***************************************************************************)
Slash == 47
LBrace == 123
RBrace == 125
Space == 32
Tab == 9
Percent == 37
At == 64

(***************************************************************************)
(* Bounds of the explored inputs.                                          *)
(***************************************************************************)
MaxPatLen == 5
MaxReqLen == 2
MaxSegLen == 3
MaxUriLen == 4
MaxRoutes == 2
MaxGroups == 3

\* '/', 'a', '1', '{', '}', ' ', '%'
PatternBytes == {47, 97, 49, 123, 125, 32, 37}
\* '/', 'a', 'x', '%'
RequestBytes == {47, 97, 120, 37}
\* '/', 'a', '%', '4', '@', ':', '!', '?', 0xC3, 0xA9
SegmentBytes == {47, 97, 37, 52, 64, 58, 33, 63, 195, 169}
\* '/', 'a'
UriBytes == {47, 97}

SeqsUpTo(S, n) == UNION {[1..k -> S] : k \in 0..n}

\* &bytes[from..to], 0-based and half open
Slice(bytes, from, to) == SubSeq(bytes, from + 1, to)

\* &bytes[from..]
DropBytes(bytes, from) == Slice(bytes, from, Len(bytes))

(***************************************************************************)
(* u8 character classes of the standard library.                           *)
(***************************************************************************)
is_ascii_digit(x) == x \in 48..57
is_ascii_alphabetic(x) == x \in 65..90 \/ x \in 97..122
is_ascii_alphanumeric(x) == is_ascii_alphabetic(x) \/ is_ascii_digit(x)

(***************************************************************************)
(* Part, Match and ParseError values.                                      *)
(***************************************************************************)
Literal(bs) == [kind |-> "Literal", bytes |-> bs]
Param(n) == [kind |-> "Param", name |-> n]
Match(n, v) == [name |-> n, value |-> v]

ExpectedExact(e, a, pos) == [kind |-> "ExpectedExact", expected |-> e, actual |-> a, pos |-> pos]
Expected(what, a, pos) == [kind |-> "Expected", expected |-> what, actual |-> a, pos |-> pos]
EndOfStream(pos) == [kind |-> "EndOfStream", pos |-> pos]
IsNotAbsolute == [kind |-> "IsNotAbsolute"]

\* outcome of a parser method: the parser after the call and Ok / Err / Panic
Ok(p, v) == [p |-> p, tag |-> "Ok", val |-> v]
Err(p, e) == [p |-> p, tag |-> "Err", err |-> e]
Panic(p) == [p |-> p, tag |-> "Panic"]

(***************************************************************************)
(* Parser primitives.  An operator named f_... is the rest of method f     *)
(* once the value in its last argument has been computed.                  *)
(***************************************************************************)
Parser_new(bytes) == [bytes |-> bytes, anchor |-> 0, cursor |-> 0]

Advance(p) == [p EXCEPT !.cursor = p.cursor + 1]

\* Option<u8>
Some(x) == [some |-> TRUE, val |-> x]
None == [some |-> FALSE]

peek(p) == IF p.cursor < Len(p.bytes) THEN Some(p.bytes[p.cursor + 1]) ELSE None

any(p) ==
    IF p.cursor < Len(p.bytes)
    THEN Ok(Advance(p), p.bytes[p.cursor + 1])
    ELSE Err(p, EndOfStream(p.cursor))

consume_peeked(p, expected_byte, x) ==
    IF ~x.some THEN Err(p, EndOfStream(p.cursor))
    ELSE IF x.val = expected_byte THEN Ok(Advance(p), x.val)
    ELSE Err(p, ExpectedExact(expected_byte, x.val, p.cursor))

consume(p, expected_byte) == consume_peeked(p, expected_byte, peek(p))

expected(p, what, actual) == Expected(what, actual, p.cursor)

IsWsByte(x) == x.some /\ x.val \in {Space, Tab}

RECURSIVE ws(_)
ws(p) == IF IsWsByte(peek(p)) THEN ws(Advance(p)) ELSE p

IsAlphanumericByte(x) == x.some /\ is_ascii_alphanumeric(x.val)

\* skip_while(|x| x.is_ascii_alphanumeric()), its only use
RECURSIVE skip_while_alphanumeric(_)
skip_while_alphanumeric(p) ==
    IF IsAlphanumericByte(peek(p)) THEN skip_while_alphanumeric(Advance(p)) ELSE p

(***************************************************************************)
(* RFC 3986 character productions.                                         *)
(***************************************************************************)
IsUnreservedByte(x) == is_ascii_alphanumeric(x) \/ x \in {45, 46, 95, 126}

unreserved_peeked(p, x) ==
    IF x.some /\ IsUnreservedByte(x.val)
    THEN [p |-> Advance(p), some |-> TRUE, val |-> x.val]
    ELSE [p |-> p, some |-> FALSE]

unreserved(p) == unreserved_peeked(p, peek(p))

hex_digit_of(a) ==
    IF a.tag # "Ok" THEN a
    ELSE IF a.val \in 48..57 THEN Ok(a.p, a.val - 48)
    ELSE IF a.val \in 65..70 THEN Ok(a.p, a.val - 65 + 10)
    ELSE IF a.val \in 97..102 THEN Ok(a.p, a.val - 97 + 10)
    ELSE Err(a.p, expected(a.p, "a hex digit", a.val))

hex_digit(p) == hex_digit_of(any(p))

percent_encoded_lower(upper, lower) ==
    IF lower.tag # "Ok" THEN lower
    ELSE Ok(lower.p, (upper.val * 16 + lower.val) % 256)

percent_encoded_upper(upper) ==
    IF upper.tag # "Ok" THEN upper
    ELSE percent_encoded_lower(upper, hex_digit(upper.p))

percent_encoded_consumed(c) ==
    IF c.tag # "Ok" THEN c ELSE percent_encoded_upper(hex_digit(c.p))

percent_encoded(p) == percent_encoded_consumed(consume(p, Percent))

\* ! $ & ' ( ) * + , ; =
SubDelimiterBytes == {33, 36, 38, 39, 40, 41, 42, 43, 44, 59, 61}

sub_delimiter_of(a) ==
    IF a.tag # "Ok" THEN a
    ELSE IF a.val \in SubDelimiterBytes THEN a
    ELSE Err(a.p, expected(a.p, "a sub delimiter", a.val))

sub_delimiter(p) == sub_delimiter_of(any(p))

\* .or_else(|_| self.consume(b'@'))
pchar_or_else_at(sd) == IF sd.tag = "Ok" THEN sd ELSE consume(sd.p, At)

\* .or_else(|_| self.sub_delimiter())
pchar_or_else_sub_delimiter(pe) ==
    IF pe.tag = "Ok" THEN pe ELSE pchar_or_else_at(sub_delimiter(pe.p))

pchar_unreserved(u) ==
    IF u.some THEN Ok(u.p, u.val)
    ELSE pchar_or_else_sub_delimiter(percent_encoded(u.p))

pchar(p) == pchar_unreserved(unreserved(p))

\* the loop of Parser::segment: the parser when the loop breaks
RECURSIVE segment_loop(_)
segment_match(r) ==
    IF r.tag = "Ok" THEN segment_loop(r.p)
    ELSE IF r.err.kind = "EndOfStream" THEN r.p
    ELSE [r.p EXCEPT !.cursor = r.p.cursor - 1]

segment_loop(p) == segment_match(pchar(p))

\* Parser::capture around the loop: the parser after it and the slice
segment_capture(p, q) == [p |-> q, slice |-> Slice(p.bytes, p.cursor, q.cursor)]

\* Parser::segment
segment(p) == segment_capture(p, segment_loop(p))

(***************************************************************************)
(* Parser::parameter_name and Parser::parse.                               *)
(***************************************************************************)
parameter_name_capture(p, q) == Ok(q, Slice(p.bytes, p.cursor, q.cursor))

parameter_name_of(p, a) ==
    IF a.tag # "Ok" THEN a
    ELSE IF ~is_ascii_alphabetic(a.val) THEN Panic(a.p)
    ELSE parameter_name_capture(p, skip_while_alphanumeric(a.p))

parameter_name(p) == parameter_name_of(p, any(p))

\* the code after the loop of Parser::parse; debug_assert_eq! is compiled in
\* (the dev and test profiles)
parse_tail(p, parts) ==
    IF p.anchor = p.cursor
    THEN IF p.cursor = Len(p.bytes) THEN Ok(p, parts) ELSE Panic(p)
    ELSE Ok(p, Append(parts, Literal(Slice(p.bytes, p.anchor, p.cursor))))

\* self.consume(b'}')?; self.anchor = self.cursor; parts.push(Part::Param { name })
parse_param_closed(parts, name, close) ==
    IF close.tag # "Ok" THEN close
    ELSE Ok([close.p EXCEPT !.anchor = close.p.cursor], Append(parts, Param(name.val)))

\* let name = self.parameter_name()?; self.ws(); ...
parse_param_named(parts, name) ==
    IF name.tag # "Ok" THEN name
    ELSE parse_param_closed(parts, name, consume(ws(name.p), RBrace))

\* the `Some(b'{')` arm of the loop body: the parser and parts after it
parse_param(p, parts) ==
    parse_param_named(Append(parts, Literal(Slice(p.bytes, p.anchor, p.cursor))),
                      parameter_name(ws(Advance(p))))

\* `while self.consume(b'/').is_ok() { ... }` followed by the tail
RECURSIVE parse_loop(_, _)
parse_loop_param(r) == IF r.tag # "Ok" THEN r ELSE parse_loop(r.p, r.val)

parse_loop_body(c, parts) ==
    IF c.tag # "Ok" THEN parse_tail(c.p, parts)
    ELSE IF peek(c.p) = Some(LBrace) THEN parse_loop_param(parse_param(c.p, parts))
    ELSE parse_loop(segment_loop(c.p), parts)

parse_loop(p, parts) == parse_loop_body(consume(p, Slash), parts)

\* the second consume(b'/') of Parser::parse, without the rejection of "//"
parse_second_unchecked(c2) == parse_loop(c2.p, <<>>)

\* the second consume(b'/') of Parser::parse and the rest
parse_second(c2) ==
    IF c2.tag = "Ok" THEN Err(c2.p, IsNotAbsolute) ELSE parse_loop(c2.p, <<>>)

parse_first(c1) ==
    IF c1.tag # "Ok" THEN Err(c1.p, IsNotAbsolute)
    ELSE parse_second(consume(c1.p, Slash))

parse(p) == parse_first(consume(p, Slash))

\* Path::new: Ok(Path { path, parts }) or the parser's error
Path_new(path) == parse(Parser_new(path))

(***************************************************************************)
(* String::from_utf8: whether a byte sequence is well-formed UTF-8.        *)
(***************************************************************************)
IsContinuation(x) == x \in 128..191

\* length of the UTF-8 scalar starting at element i of bs, 0 when ill-formed
Utf8Width(bs, i) ==
    LET n == Len(bs)
        b0 == bs[i]
        Cont(k) == i + k <= n /\ IsContinuation(bs[i + k])
        In(k, lo, hi) == i + k <= n /\ bs[i + k] \in lo..hi
    IN  IF b0 < 128 THEN 1
        ELSE IF b0 \in 194..223 THEN (IF Cont(1) THEN 2 ELSE 0)
        ELSE IF b0 = 224 THEN (IF In(1, 160, 191) /\ Cont(2) THEN 3 ELSE 0)
        ELSE IF b0 \in 225..236 \/ b0 \in 238..239
             THEN (IF Cont(1) /\ Cont(2) THEN 3 ELSE 0)
        ELSE IF b0 = 237 THEN (IF In(1, 128, 159) /\ Cont(2) THEN 3 ELSE 0)
        ELSE IF b0 = 240 THEN (IF In(1, 144, 191) /\ Cont(2) /\ Cont(3) THEN 4 ELSE 0)
        ELSE IF b0 \in 241..243 THEN (IF Cont(1) /\ Cont(2) /\ Cont(3) THEN 4 ELSE 0)
        ELSE IF b0 = 244 THEN (IF In(1, 128, 143) /\ Cont(2) /\ Cont(3) THEN 4 ELSE 0)
        ELSE 0

RECURSIVE IsUtf8From(_, _)
IsUtf8Step(bs, i, w) == IF w = 0 THEN FALSE ELSE IsUtf8From(bs, i + w)

IsUtf8From(bs, i) == IF i > Len(bs) THEN TRUE ELSE IsUtf8Step(bs, i, Utf8Width(bs, i))

from_utf8_is_ok(bs) == IsUtf8From(bs, 1)

(***************************************************************************)
(* Path::matches.                                                          *)
(***************************************************************************)
\* bytes.strip_prefix(literal)
strip_prefix(bytes, literal) ==
    IF Len(literal) <= Len(bytes) /\ Slice(bytes, 0, Len(literal)) = literal
    THEN [some |-> TRUE, val |-> DropBytes(bytes, Len(literal))]
    ELSE None

MatchSome(ms) == [tag |-> "Some", matches |-> ms]
MatchNone == [tag |-> "None"]
MatchPanic == [tag |-> "Panic"]

\* the `for part in &self.parts` loop from part i on, then `Some(matches)`
RECURSIVE matches_loop(_, _, _, _)
matches_literal(parts, i, tail, ms) ==
    IF tail.some THEN matches_loop(parts, i + 1, tail.val, ms) ELSE MatchNone

\* matches_param with the Match put in front of the earlier ones
matches_param_prepended(parts, i, bytes, ms, parameter) ==
    IF ~from_utf8_is_ok(parameter) THEN MatchPanic
    ELSE matches_loop(parts, i + 1, DropBytes(bytes, Len(parameter)),
                      <<Match(parts[i].name, parameter)>> \o ms)

matches_param(parts, i, bytes, ms, parameter) ==
    IF ~from_utf8_is_ok(parameter) THEN MatchPanic
    ELSE matches_loop(parts, i + 1, DropBytes(bytes, Len(parameter)),
                      Append(ms, Match(parts[i].name, parameter)))

matches_loop(parts, i, bytes, ms) ==
    IF i > Len(parts) THEN MatchSome(ms)
    ELSE IF parts[i].kind = "Literal"
    THEN matches_literal(parts, i, strip_prefix(bytes, parts[i].bytes), ms)
    ELSE matches_param(parts, i, bytes, ms, segment(Parser_new(bytes)).slice)

matches(parts, path) == matches_loop(parts, 1, path, <<>>)

(***************************************************************************)
(* Explored inputs.  A String or &str is well-formed UTF-8; the parser     *)
(* itself takes any byte slice.                                            *)
(***************************************************************************)
\* "/url/path/to/parse", "/url/path/to/parse/", "url/path/to/parse/",
\* "/url/with/{parameters}", "/a/{id}/b", "/{1abc}", "/a?b", "/a/{ id }"
ExamplePatterns ==
    { <<47, 117, 114, 108, 47, 112, 97, 116, 104, 47, 116, 111, 47, 112, 97, 114, 115, 101>>,
      <<47, 117, 114, 108, 47, 112, 97, 116, 104, 47, 116, 111, 47, 112, 97, 114, 115, 101, 47>>,
      <<117, 114, 108, 47, 112, 97, 116, 104, 47, 116, 111, 47, 112, 97, 114, 115, 101, 47>>,
      <<47, 117, 114, 108, 47, 119, 105, 116, 104, 47, 123, 112, 97, 114, 97, 109, 101, 116, 101, 114, 115, 125>>,
      <<47, 97, 47, 123, 105, 100, 125, 47, 98>>,
      <<47, 123, 49, 97, 98, 99, 125>>,
      <<47, 97, 63, 98>>,
      <<47, 97, 47, 123, 32, 105, 100, 32, 125>> }

\* "/url/with/xyz", "/url/with/xyz/extra", "/a/42/b", "/a//b"
ExampleRequests ==
    { <<47, 117, 114, 108, 47, 119, 105, 116, 104, 47, 120, 121, 122>>,
      <<47, 117, 114, 108, 47, 119, 105, 116, 104, 47, 120, 121, 122, 47, 101, 120, 116, 114, 97>>,
      <<47, 97, 47, 52, 50, 47, 98>>,
      <<47, 97, 47, 47, 98>> }

Patterns == SeqsUpTo(PatternBytes, MaxPatLen) \cup ExamplePatterns
Requests == SeqsUpTo(RequestBytes, MaxReqLen) \cup ExampleRequests
SegmentInputs == SeqsUpTo(SegmentBytes, MaxSegLen)

\* the patterns given to App::add and Group::add:
\* "/", "/a/{id}/b", "/url/with/{parameters}", "url/path/to/parse/"
RoutePatterns ==
    { <<Slash>>,
      <<47, 97, 47, 123, 105, 100, 125, 47, 98>>,
      <<47, 117, 114, 108, 47, 119, 105, 116, 104, 47, 123, 112, 97, 114, 97, 109, 101, 116, 101, 114, 115, 125>>,
      <<117, 114, 108, 47, 112, 97, 116, 104, 47, 116, 111, 47, 112, 97, 114, 115, 101, 47>> }

\* the prefixes of mounted groups: "/app", "g"
GroupPrefixes == {<<47, 97, 112, 112>>, <<103>>}

\* the request methods, and the methods routes are registered under
Methods == {"GET", "POST"}

(***************************************************************************)
(* The router's data.  A Path is [path, parts], a Route [method, path]     *)
(* (its handler left out), a Group [prefix, routes] with routes the        *)
(* HashMap from a Method to the Vec of its routes, a Router [groups].      *)
(***************************************************************************)
\* Group::new(prefix): no method has routes
Group_new(prefix) == [prefix |-> prefix, routes |-> [m \in {} |-> <<>>]]

\* Router::new(): the default group, without prefix
Router_new == [groups |-> <<Group_new(<<>>)>>]

\* Route::new(method, path, handler)
Route_new(m, path) == [method |-> m, path |-> path]

\* self.routes.entry(method).or_default() followed by routes.push(route)
entry_push(routes, m, route) ==
    [k \in DOMAIN routes \cup {m} |->
        IF k = m
        THEN Append(IF m \in DOMAIN routes THEN routes[m] ELSE <<>>, route)
        ELSE routes[k]]

\* the number of routes of a group
RECURSIVE CountRoutes(_, _)
CountRoutes(routes, ms) ==
    IF ms = {} THEN 0
    ELSE LET m == CHOOSE k \in ms : TRUE
         IN  Len(routes[m]) + CountRoutes(routes, ms \ {m})

NumRoutes(g) == CountRoutes(g.routes, DOMAIN g.routes)

\* the number of routes of the groups from group gi on
RECURSIVE NumRouterRoutes(_, _)
NumRouterRoutes(gs, gi) ==
    IF gi > Len(gs) THEN 0 ELSE NumRoutes(gs[gi]) + NumRouterRoutes(gs, gi + 1)

(***************************************************************************)
(* State: `pattern` is the String given to Path::new, `compiled` its       *)
(* outcome (the Path's parts, or the ParseError), `parser` the Parser the  *)
(* last call ran on, `request` and `matched` the argument and outcome of   *)
(* the last Path::matches, `captured` the slice Parser::segment returned,  *)
(* `router` the App's Router, `uri` and `method` the URI path and method   *)
(* of the last request given to Router::route, `routed` its outcome,       *)
(* `group` the Group that has been built outside the router and not yet    *)
(* been mounted.                                                           *)
(***************************************************************************)
NotCompiled == [tag |-> "Unset"]
NotMatched == [tag |-> "Unset"]
NotRouted == [tag |-> "Unset"]
NoMethod == "-"
NoGroup == [built |-> FALSE]

Init ==
    /\ pc = "new"
    /\ pattern \in Patterns
    /\ compiled = NotCompiled
    /\ parser = Parser_new(pattern)
    /\ request = <<>>
    /\ matched = NotMatched
    /\ captured = <<>>
    /\ uri = <<>>
    /\ router = Router_new
    /\ method = NoMethod
    /\ routed = NotRouted
    /\ group = NoGroup

\* the outcome r of Path::new is stored
PathNewResult(r) ==
    /\ parser' = r.p
    /\ compiled' = IF r.tag = "Ok" THEN [tag |-> "Ok", parts |-> r.val]
                   ELSE IF r.tag = "Err" THEN [tag |-> "Err", err |-> r.err]
                   ELSE [tag |-> "Panic"]
    /\ pc' = IF r.tag = "Ok" THEN "compiled" ELSE "rejected"

\* Path::new(pattern)
PathNew ==
    /\ pc = "new"
    /\ PathNewResult(Path_new(pattern))
    /\ UNCHANGED <<pattern, request, matched, captured, uri, router, method, routed, group>>

\* path.matches(req) on the compiled Path
PathMatches(req) ==
    /\ pc = "compiled"
    /\ request' = req
    /\ matched' = matches(compiled.parts, req)
    /\ pc' = "matched"
    /\ UNCHANGED <<pattern, compiled, parser, captured, uri, router, method, routed, group>>

MatchRequest == \E req \in Requests : PathMatches(req)

Next == PathNew \/ MatchRequest

Spec == Init /\ [][Next]_vars

(***************************************************************************)
(* Parser::segment from any cursor position of any byte string.            *)
(***************************************************************************)
InitSegment ==
    /\ pc = "parser"
    /\ \E bs \in SegmentInputs : \E c \in 0..Len(bs) :
          parser = [bytes |-> bs, anchor |-> 0, cursor |-> c]
    /\ pattern = <<>>
    /\ compiled = NotCompiled
    /\ request = <<>>
    /\ matched = NotMatched
    /\ captured = <<>>
    /\ uri = <<>>
    /\ router = Router_new
    /\ method = NoMethod
    /\ routed = NotRouted
    /\ group = NoGroup

SegmentResult(r) ==
    /\ parser' = r.p
    /\ captured' = r.slice

Segment ==
    /\ pc = "parser"
    /\ SegmentResult(segment(parser))
    /\ pc' = "segmented"
    /\ UNCHANGED <<pattern, compiled, request, matched, uri, router, method, routed, group>>

NextSegment == Segment

SpecSegment == InitSegment /\ [][NextSegment]_vars

(***************************************************************************)
(* The App: routes are added to the default group with App::add, a group  *)
(* is built and mounted by App::mount, or built outside with Group::new    *)
(* and Group::add and mounted by App::mount_group; then requests are given *)
(* to Router::route.                                                       *)
(***************************************************************************)
\* the paths http::Uri::path() gives: "" for a request target without a
\* path (authority form), "*" for the asterisk form, and otherwise the
\* path of the target, which begins with '/'
UriPaths ==
    {bs \in SeqsUpTo(UriBytes, MaxUriLen) : bs = <<>> \/ bs[1] = Slash}
        \cup {<<42>>}

\* App::new()
InitApp ==
    /\ pc = "app"
    /\ router = Router_new
    /\ pattern = <<>>
    /\ compiled = NotCompiled
    /\ parser = Parser_new(<<>>)
    /\ request = <<>>
    /\ matched = NotMatched
    /\ captured = <<>>
    /\ uri = <<>>
    /\ method = NoMethod
    /\ routed = NotRouted
    /\ group = NoGroup

\* the groups and the routes in existence, in the router and outside it
GroupCount == Len(router.groups) + (IF group.built THEN 1 ELSE 0)
RouteCount ==
    NumRouterRoutes(router.groups, 1) + (IF group.built THEN NumRoutes(group.g) ELSE 0)

\* the group after Group::add has pushed the route of Path { path, parts }
Group_pushed(g, m, path, parts) ==
    [g EXCEPT !.routes =
        entry_push(g.routes, m, Route_new(m, [path |-> path, parts |-> parts]))]

\* Group::add(method, pattern, handler) on group gi: r is the outcome of
\* Path::new(path), which `.unwrap()` turns into a panic unless it is Ok
Group_add(gi, m, path, r) ==
    /\ pattern' = path
    /\ parser' = r.p
    /\ compiled' = IF r.tag = "Ok" THEN [tag |-> "Ok", parts |-> r.val]
                   ELSE IF r.tag = "Err" THEN [tag |-> "Err", err |-> r.err]
                   ELSE [tag |-> "Panic"]
    /\ router' = IF r.tag = "Ok"
                 THEN [router EXCEPT
                          !.groups[gi] = Group_pushed(router.groups[gi], m, path, r.val)]
                 ELSE router
    /\ pc' = IF r.tag = "Ok" THEN "app" ELSE "panicked"

\* App::add(method, pattern, handle): Group::add on the default group,
\* which compiles its prefix followed by the pattern
App_add(m, pat) ==
    /\ pc = "app"
    /\ RouteCount < MaxRoutes
    /\ Group_add(1, m, router.groups[1].prefix \o pat,
                 Path_new(router.groups[1].prefix \o pat))
    /\ UNCHANGED <<request, matched, captured, uri, method, routed, group>>

AppAdd == \E m \in Methods : \E pat \in RoutePatterns : App_add(m, pat)

\* the Group::add calls <<method, pattern>> that a closure given to
\* App::mount, or the code building a Group for App::mount_group, makes
AddCalls == SeqsUpTo(Methods \X RoutePatterns, MaxRoutes)

\* the last Path::new call of a run of Group::add calls
NoPathNew == [called |-> FALSE]
LastPathNew(path, r) == [called |-> TRUE, path |-> path, r |-> r]

GroupBuilt(g, last) == [tag |-> "Ok", group |-> g, last |-> last]
GroupPanic(g, last) == [tag |-> "Panic", group |-> g, last |-> last]

RECURSIVE Group_adds(_, _, _, _)

\* Group::add on the Group value g for calls[i]: r is the outcome of
\* Path::new(path), which `.unwrap()` turns into a panic unless it is Ok
Group_added(g, calls, i, path, r) ==
    IF r.tag = "Ok"
    THEN Group_adds(Group_pushed(g, calls[i][1], path, r.val), calls, i + 1,
                    LastPathNew(path, r))
    ELSE GroupPanic(g, LastPathNew(path, r))

\* the Group::add calls from calls[i] on, made in order on the Group g
Group_adds(g, calls, i, last) ==
    IF i > Len(calls) THEN GroupBuilt(g, last)
    ELSE Group_added(g, calls, i, g.prefix \o calls[i][2],
                     Path_new(g.prefix \o calls[i][2]))

\* Group::new(prefix) and then the Group::add calls
Group_build(prefix, calls) == Group_adds(Group_new(prefix), calls, 1, NoPathNew)

\* the outcome of the last Path::new, as Path::new stores it
PathOutcome(r) ==
    IF r.tag = "Ok" THEN [tag |-> "Ok", parts |-> r.val]
    ELSE IF r.tag = "Err" THEN [tag |-> "Err", err |-> r.err]
    ELSE [tag |-> "Panic"]

\* App::mount(prefix, func) with b the outcome of Group::new(prefix) and
\* func(&mut group): the group is pushed unless func has panicked
App_mount_push(b) ==
    /\ router' = IF b.tag = "Ok"
                 THEN [router EXCEPT !.groups = Append(router.groups, b.group)]
                 ELSE router
    /\ pc' = IF b.tag = "Ok" THEN "app" ELSE "panicked"
    /\ pattern' = IF b.last.called THEN b.last.path ELSE pattern
    /\ parser' = IF b.last.called THEN b.last.r.p ELSE parser
    /\ compiled' = IF b.last.called THEN PathOutcome(b.last.r) ELSE compiled

\* App::mount(prefix, func), func making the Group::add calls `calls`
App_mount(prefix, calls) ==
    /\ pc = "app"
    /\ GroupCount < MaxGroups
    /\ RouteCount + Len(calls) <= MaxRoutes
    /\ App_mount_push(Group_build(prefix, calls))
    /\ UNCHANGED <<request, matched, captured, uri, method, routed, group>>

AppMount == \E prefix \in GroupPrefixes : \E calls \in AddCalls : App_mount(prefix, calls)

\* Group::new(prefix) for a Group outside the router; one such Group is
\* held at a time
Group_new_free(prefix) ==
    /\ pc = "app"
    /\ ~group.built
    /\ GroupCount < MaxGroups
    /\ group' = [built |-> TRUE, g |-> Group_new(prefix)]
    /\ UNCHANGED <<pc, pattern, compiled, parser, request, matched, captured, uri,
                   router, method, routed>>

GroupNewFree == \E prefix \in GroupPrefixes : Group_new_free(prefix)

\* Group::add(method, pattern, handler) on the Group outside the router: r
\* is the outcome of Path::new(path), which `.unwrap()` turns into a panic
\* unless it is Ok
Group_add_pushed(m, path, r) ==
    /\ pattern' = path
    /\ parser' = r.p
    /\ compiled' = PathOutcome(r)
    /\ group' = IF r.tag = "Ok"
                THEN [group EXCEPT !.g = Group_pushed(group.g, m, path, r.val)]
                ELSE group
    /\ pc' = IF r.tag = "Ok" THEN "app" ELSE "panicked"

Group_add_free(m, pat) ==
    /\ pc = "app"
    /\ group.built
    /\ RouteCount < MaxRoutes
    /\ Group_add_pushed(m, group.g.prefix \o pat, Path_new(group.g.prefix \o pat))
    /\ UNCHANGED <<request, matched, captured, uri, router, method, routed>>

GroupAddFree == \E m \in Methods : \E pat \in RoutePatterns : Group_add_free(m, pat)

\* App::mount_group(group): the Group built outside moves into the router
App_mount_group ==
    /\ pc = "app"
    /\ group.built
    /\ router' = [router EXCEPT !.groups = Append(router.groups, group.g)]
    /\ group' = NoGroup
    /\ UNCHANGED <<pc, pattern, compiled, parser, request, matched, captured, uri,
                   method, routed>>

\* str::trim_end_matches("/")
RECURSIVE trim_end_matches_slash(_)
trim_end_matches_slash(bs) ==
    IF bs # <<>> /\ bs[Len(bs)] = Slash
    THEN trim_end_matches_slash(SubSeq(bs, 1, Len(bs) - 1))
    ELSE bs

\* the `path` that Router::route computes from uri.path()
route_path(uri_path) ==
    IF uri_path = <<Slash>> THEN uri_path ELSE trim_end_matches_slash(uri_path)

RoutedSome(gi, ri, ms) == [tag |-> "Some", group |-> gi, route |-> ri, matches |-> ms]
RoutedNone == [tag |-> "None"]
RoutedPanic == [tag |-> "Panic"]

\* the outcome of Router::route, with the outcome `last` of the last
\* Path::matches it has called (NotMatched when it has called none)
RouteOutcome(r, last) == [routed |-> r, matched |-> last]

RECURSIVE route_groups(_, _, _, _, _)
RECURSIVE route_routes(_, _, _, _, _)

\* the closure of routes.iter().find_map on route ri of group gi: r is
\* route.path.matches(&path)
route_find_map(gs, m, path, gi, ri, r) ==
    IF r.tag = "Some" THEN RouteOutcome(RoutedSome(gi, ri, r.matches), r)
    ELSE IF r.tag = "Panic" THEN RouteOutcome(RoutedPanic, r)
    ELSE IF ri < Len(gs[gi].routes[m]) THEN route_routes(gs, m, path, gi, ri + 1)
    ELSE route_groups(gs, m, path, gi + 1, r)

\* routes.iter().find_map(..) of group gi from its route ri on; a Vec in
\* the HashMap holds a route, since Group::add creates it by pushing one
route_routes(gs, m, path, gi, ri) ==
    route_find_map(gs, m, path, gi, ri, matches(gs[gi].routes[m][ri].path.parts, path))

\* self.groups.iter().filter_map(|g| g.routes.get(method)..).find_map(..)
\* from group gi on
route_groups(gs, m, path, gi, last) ==
    IF gi > Len(gs) THEN RouteOutcome(RoutedNone, last)
    ELSE IF m \in DOMAIN gs[gi].routes THEN route_routes(gs, m, path, gi, 1)
    ELSE route_groups(gs, m, path, gi + 1, last)

\* Router::route(uri, method) on the router r
route(r, uri_path, m) == route_groups(r.groups, m, route_path(uri_path), 1, NotMatched)

\* the outcome o of Router::route is stored; `request` is the path that
\* Path::matches was called with, when it was called
RouteResult(path, o) ==
    /\ routed' = o.routed
    /\ matched' = o.matched
    /\ request' = IF o.matched = NotMatched THEN <<>> ELSE path

\* Router::route(uri, method) for a request of method m whose URI path is u
Route(u, m) ==
    /\ pc \in {"app", "serving"}
    /\ uri' = u
    /\ method' = m
    /\ RouteResult(route_path(u), route(router, u, m))
    /\ pc' = "serving"
    /\ UNCHANGED <<pattern, compiled, parser, captured, router, group>>

RouteRequest == \E u \in UriPaths : \E m \in Methods : Route(u, m)

NextRoute ==
    AppAdd \/ AppMount \/ GroupNewFree \/ GroupAddFree \/ App_mount_group \/ RouteRequest

SpecRoute == InitApp /\ [][NextRoute]_vars

(***************************************************************************)
(* The grammar of the module's doc comment, as a recogniser independent of *)
(* the parser: the statements below are about patterns and paths that the  *)
(* grammar describes.  Indices are 1-based.                                *)
(***************************************************************************)
IsHexDigit(x) == x \in 48..57 \/ x \in 65..70 \/ x \in 97..102

\* a pchar of one byte: unreserved, sub-delims, ':' or '@'
IsPcharByte(x) == IsUnreservedByte(x) \/ x \in SubDelimiterBytes \/ x = 58 \/ x = At

IsPctEncodedAt(bs, i) ==
    /\ i + 2 <= Len(bs)
    /\ bs[i] = Percent
    /\ IsHexDigit(bs[i + 1])
    /\ IsHexDigit(bs[i + 2])

\* width of the pchar starting at element i, 0 when none starts there
GrammarPcharWidth(bs, i) ==
    IF i > Len(bs) THEN 0
    ELSE IF IsPcharByte(bs[i]) THEN 1
    ELSE IF IsPctEncodedAt(bs, i) THEN 3
    ELSE 0

\* index after the longest run of pchars starting at element i
RECURSIVE GrammarSegmentEnd(_, _)
GrammarSegmentEnd(bs, i) ==
    LET w == GrammarPcharWidth(bs, i) IN
    IF w = 0 THEN i ELSE GrammarSegmentEnd(bs, i + w)

RECURSIVE SkipWs(_, _)
SkipWs(bs, i) ==
    IF i <= Len(bs) /\ bs[i] \in {Space, Tab} THEN SkipWs(bs, i + 1) ELSE i

RECURSIVE SkipAlnum(_, _)
SkipAlnum(bs, i) ==
    IF i <= Len(bs) /\ is_ascii_alphanumeric(bs[i]) THEN SkipAlnum(bs, i + 1) ELSE i

IsName(bs) ==
    /\ bs # <<>>
    /\ is_ascii_alphabetic(bs[1])
    /\ \A k \in 1..Len(bs) : is_ascii_alphanumeric(bs[k])

\* index after the param '{' ws name ws '}' starting at element i, 0 when none
GrammarParamEnd(bs, i) ==
    IF ~(i <= Len(bs) /\ bs[i] = LBrace) THEN 0
    ELSE LET n == SkipWs(bs, i + 1)
             e == SkipAlnum(bs, n)
             c == SkipWs(bs, e)
         IN  IF /\ n <= Len(bs)
                /\ is_ascii_alphabetic(bs[n])
                /\ c <= Len(bs)
                /\ bs[c] = RBrace
             THEN c + 1 ELSE 0

\* segment-or-param ( '/' segment-or-param )* from element i to the end
RECURSIVE GrammarPathFrom(_, _)
GrammarPathFrom(bs, i) ==
    LET e == IF i <= Len(bs) /\ bs[i] = LBrace
             THEN GrammarParamEnd(bs, i)
             ELSE GrammarSegmentEnd(bs, i)
    IN  /\ e # 0
        /\ \/ e > Len(bs)
           \/ bs[e] = Slash /\ GrammarPathFrom(bs, e + 1)

StartsWithSingleSlash(bs) ==
    /\ Len(bs) >= 1
    /\ bs[1] = Slash
    /\ Len(bs) >= 2 => bs[2] # Slash

\* a pattern of the grammar that starts with a single '/'
IsGrammarPattern(bs) == StartsWithSingleSlash(bs) /\ GrammarPathFrom(bs, 2)

\* '/'-separated segments of pchars, no parameter
IsLiteralPattern(bs) ==
    /\ IsGrammarPattern(bs)
    /\ \A k \in 1..Len(bs) : bs[k] # LBrace

IsNotAbsolutePattern(bs) ==
    \/ bs = <<>>
    \/ bs[1] # Slash
    \/ Len(bs) >= 2 /\ bs[1] = Slash /\ bs[2] = Slash

Compiled == pc \in {"compiled", "rejected", "matched"} /\ compiled # NotCompiled

CompiledOk(parts) == compiled = [tag |-> "Ok", parts |-> parts]
CompiledErr(e) == compiled = [tag |-> "Err", err |-> e]

(***************************************************************************)
(* C1.  Every pattern that is empty, whose first byte is not '/', or that  *)
(* begins with "//" makes Parser::parse (and so Path::new) return          *)
(* Err(ParseError::IsNotAbsolute), with no parts produced.                 *)
(***************************************************************************)
C1_NotAbsoluteRejected ==
    (Compiled /\ IsNotAbsolutePattern(pattern)) => CompiledErr(IsNotAbsolute)

\* a pattern beginning with "//" has been rejected
C1_Witness ==
    /\ pc = "rejected"
    /\ Len(pattern) >= 3
    /\ pattern[1] = Slash
    /\ pattern[2] = Slash
    /\ CompiledErr(IsNotAbsolute)

(***************************************************************************)
(* C2.  Compiling "/" succeeds with an empty part sequence, and parts is   *)
(* empty if and only if the pattern is exactly "/".                        *)
(***************************************************************************)
C2_EmptyPartsIffRoot ==
    Compiled =>
        /\ pattern = <<Slash>> => CompiledOk(<<>>)
        /\ compiled.tag = "Ok" => (compiled.parts = <<>> <=> pattern = <<Slash>>)

\* number of path bytes the parts of a successful match have consumed
RECURSIVE LiteralBytes(_)
LiteralBytes(parts) ==
    IF parts = <<>> THEN 0
    ELSE (IF Head(parts).kind = "Literal" THEN Len(Head(parts).bytes) ELSE 0)
         + LiteralBytes(Tail(parts))

RECURSIVE ValueBytes(_)
ValueBytes(ms) ==
    IF ms = <<>> THEN 0 ELSE Len(Head(ms).value) + ValueBytes(Tail(ms))

ConsumedBytes(parts, ms) == LiteralBytes(parts) + ValueBytes(ms)

(***************************************************************************)
(* C3.  Path::matches succeeds only if the whole path has been consumed:   *)
(* whenever bytes of the path are left over after the last part, matches   *)
(* returns None.                                                           *)
(***************************************************************************)
C3_LeftoverIsNoMatch ==
    (pc = "matched" /\ matched.tag = "Some")
        => ConsumedBytes(compiled.parts, matched.matches) = Len(request)

(***************************************************************************)
(* C4.  A pattern that starts with a single '/' and consists only of       *)
(* '/'-separated segments of pchars, without a parameter, parses to        *)
(* exactly one part: the Literal of the entire pattern.                    *)
(***************************************************************************)
C4_LiteralPatternIsOneLiteral ==
    (Compiled /\ IsLiteralPattern(pattern)) => CompiledOk(<<Literal(pattern)>>)

\* strip the spaces and tabs at both ends
RECURSIVE TrimWs(_)
TrimWs(bs) ==
    IF bs = <<>> THEN bs
    ELSE IF bs[1] \in {Space, Tab} THEN TrimWs(Tail(bs))
    ELSE IF bs[Len(bs)] \in {Space, Tab} THEN TrimWs(SubSeq(bs, 1, Len(bs) - 1))
    ELSE bs

\* bs is P '{' ws name ws '}' S with '{' at element i and '}' at element j
IsOneParamPattern(bs, i, j) ==
    /\ 1 < i /\ i < j /\ j <= Len(bs)
    /\ bs[i] = LBrace
    /\ bs[j] = RBrace
    /\ bs[i - 1] = Slash
    /\ IsLiteralPattern(SubSeq(bs, 1, i - 1))
    /\ IsName(TrimWs(SubSeq(bs, i + 1, j - 1)))
    /\ \/ j = Len(bs)
       \/ /\ bs[j + 1] = Slash
          /\ GrammarPathFrom(bs, j + 2)
          /\ \A k \in (j + 1)..Len(bs) : bs[k] # LBrace

OneParamParts(bs, i, j) ==
    <<Literal(SubSeq(bs, 1, i - 1)), Param(TrimWs(SubSeq(bs, i + 1, j - 1)))>>
    \o (IF j = Len(bs) THEN <<>> ELSE <<Literal(SubSeq(bs, j + 1, Len(bs)))>>)

(***************************************************************************)
(* C5.  A pattern P '{' ws name ws '}' S, with P a literal prefix ending   *)
(* in '/', name an identifier and S empty or a literal suffix starting     *)
(* with '/', parses to [Literal(P), Param(name)], followed by Literal(S)   *)
(* when S is not empty.                                                    *)
(***************************************************************************)
C5_OneParamPatternParts ==
    Compiled =>
        \A i, j \in 1..Len(pattern) :
            IsOneParamPattern(pattern, i, j) => CompiledOk(OneParamParts(pattern, i, j))

(***************************************************************************)
(* C6.  Parser::parse applied to "/" alone returns                         *)
(* Err(ParseError::IsNotAbsolute), as the test root_path_is_valid asserts. *)
(***************************************************************************)
C6_RootIsNotAbsolute ==
    (Compiled /\ pattern = <<Slash>>) => CompiledErr(IsNotAbsolute)

(***************************************************************************)
(* C7.  A pattern that starts with a single '/' but violates the grammar   *)
(* never compiles to Ok: it yields a ParseError, and a successful parse    *)
(* leaves no byte of the pattern unparsed.                                 *)
(***************************************************************************)
C7_GrammarViolationRejected ==
    Compiled =>
        /\ (StartsWithSingleSlash(pattern) /\ ~IsGrammarPattern(pattern))
              => compiled.tag = "Err"
        /\ compiled.tag = "Ok" => parser.cursor = Len(pattern)

\* the pattern's first parameter is '{' followed at once by a digit at element i
HasDigitLedParam(bs, i) ==
    /\ 2 < i /\ i <= Len(bs)
    /\ StartsWithSingleSlash(bs)
    /\ bs[i - 1] = LBrace
    /\ bs[i - 2] = Slash
    /\ is_ascii_digit(bs[i])
    /\ IsLiteralPattern(SubSeq(bs, 1, i - 2))

(***************************************************************************)
(* C8.  A pattern whose parameter name starts with a digit, as "/{1abc}",  *)
(* fails to compile with ParseError::Expected whose pos is the 0-based     *)
(* offset of the digit; it neither compiles nor panics.                    *)
(***************************************************************************)
C8_DigitLedNameIsExpectedError ==
    Compiled =>
        \A i \in 1..Len(pattern) :
            HasDigitLedParam(pattern, i)
                => /\ compiled.tag = "Err"
                   /\ compiled.err.kind = "Expected"
                   /\ compiled.err.pos = i - 1

\* a '%' of bs that is not followed by two hex digits
HasInvalidPercent(bs) ==
    \E k \in 1..Len(bs) : bs[k] = Percent /\ ~IsPctEncodedAt(bs, k)

\* the bytes of bs before its first '/'
RECURSIVE FirstSegment(_)
FirstSegment(bs) ==
    IF bs = <<>> \/ bs[1] = Slash THEN <<>>
    ELSE <<bs[1]>> \o FirstSegment(Tail(bs))

\* pat is P '{' ws name ws '}' S, path begins with P, and the segment of
\* path that stands in the parameter's place has an invalid percent-encoding
ParamSegmentHasInvalidPercent(pat, path) ==
    \E i, j \in 1..Len(pat) :
        /\ IsOneParamPattern(pat, i, j)
        /\ strip_prefix(path, SubSeq(pat, 1, i - 1)).some
        /\ HasInvalidPercent(FirstSegment(strip_prefix(path, SubSeq(pat, 1, i - 1)).val))

(***************************************************************************)
(* C9.  A path whose parameter segment contains an invalid percent-        *)
(* encoding is a non-match: Path::matches returns None and does not panic. *)
(***************************************************************************)
C9_InvalidPercentIsNoMatch ==
    (pc = "matched" /\ ParamSegmentHasInvalidPercent(pattern, request))
        => matched = MatchNone

(***************************************************************************)
(* C10.  Parser::segment never advances the cursor past a '/': the slice   *)
(* it captures, from any start position of any byte string, holds no '/'.  *)
(***************************************************************************)
C10_SegmentHoldsNoSlash ==
    pc = "segmented" => \A k \in 1..Len(captured) : captured[k] # Slash

\* the names of the Param parts, left to right
RECURSIVE ParamNames(_)
ParamNames(parts) ==
    IF parts = <<>> THEN <<>>
    ELSE (IF Head(parts).kind = "Param" THEN <<Head(parts).name>> ELSE <<>>)
         \o ParamNames(Tail(parts))

\* the names of the matches, in the order of the result
RECURSIVE MatchNames(_)
MatchNames(ms) ==
    IF ms = <<>> THEN <<>> ELSE <<Head(ms).name>> \o MatchNames(Tail(ms))

\* part sequences with zero, one and two Params, of the shapes of
\* "/", "/a", "/{a}", "/a/{a}", "/{a}/a", "/{a}/", "/{a}/{b}", "/{a}/{a}"
PartSequences ==
    { <<Literal(<<47>>)>>,
      <<Literal(<<47, 97>>)>>,
      <<Literal(<<47>>), Param(<<97>>)>>,
      <<Literal(<<47, 97, 47>>), Param(<<97>>)>>,
      <<Literal(<<47>>), Param(<<97>>), Literal(<<47, 97>>)>>,
      <<Literal(<<47>>), Param(<<97>>), Literal(<<47>>)>>,
      <<Literal(<<47>>), Param(<<97>>), Literal(<<47>>), Param(<<98>>)>>,
      <<Literal(<<47>>), Param(<<97>>), Literal(<<47>>), Param(<<97>>)>> }

\* a Some result r of matches on parts names the Params of parts in order
NamesParams(parts, r) ==
    r.tag = "Some" => MatchNames(r.matches) = ParamNames(parts)

(***************************************************************************)
(* C11.  Whenever Path::matches returns Some(ms), ms holds exactly one     *)
(* Match per Param part of the pattern, in the pattern's left-to-right     *)
(* order and under that Param's name (duplicates included); a pattern      *)
(* without a Param yields the empty list.  Stated for the Path that        *)
(* Path::new has built, and, since such a Path never holds a Param, for    *)
(* Path::matches as a function of the part sequences above applied to the  *)
(* same path.                                                              *)
(***************************************************************************)
C11_OneMatchPerParamInOrder ==
    pc = "matched" =>
        /\ NamesParams(compiled.parts, matched)
        /\ \A parts \in PartSequences : NamesParams(parts, matches(parts, request))

\* matches has returned the empty list for a Path without Param, on a path
\* for which parts with two differently named Params yield two matches
TwoMatches(r) ==
    /\ r.tag = "Some"
    /\ Len(r.matches) = 2
    /\ r.matches[1].name # r.matches[2].name
    /\ r.matches[1].value # <<>>

C11_Witness ==
    /\ pc = "matched"
    /\ matched = MatchSome(<<>>)
    /\ ParamNames(compiled.parts) = <<>>
    /\ \E parts \in PartSequences : TwoMatches(matches(parts, request))

\* pat is L1 '{' ws name ws '}' L2 with '{' at element i, '}' at element j
\* and L2 starting with '/', and path is L1 followed by L2
IsEmptyCaptureCase(pat, path, i, j) ==
    /\ IsOneParamPattern(pat, i, j)
    /\ j < Len(pat)
    /\ path = SubSeq(pat, 1, i - 1) \o SubSeq(pat, j + 1, Len(pat))

(***************************************************************************)
(* C12.  A parameter may capture zero bytes: for the pattern               *)
(* L1 '{' n '}' L2 with L2 starting with '/', whose parts are to be        *)
(* [Literal(L1), Param(n), Literal(L2)], the path L1 L2 matches with       *)
(* exactly [Match{name: n, value: ""}].                                    *)
(***************************************************************************)
C12_EmptyCaptureMatches ==
    pc = "matched" =>
        \A i, j \in 1..Len(pattern) :
            IsEmptyCaptureCase(pattern, request, i, j)
                => matched = MatchSome(<<Match(TrimWs(SubSeq(pattern, i + 1, j - 1)), <<>>)>>)

\* the cursor at which the last Parser::segment started
SegmentStart == parser.cursor - Len(captured)

(***************************************************************************)
(* C13.  Parser::segment, started at any cursor position of any byte       *)
(* string, consumes exactly the longest prefix that is a sequence of       *)
(* grammar pchars (unreserved, '%' and two hex digits, a sub-delimiter,    *)
(* ':' or '@') and leaves the cursor on the first byte that does not       *)
(* begin a pchar, or at the end of the input.                              *)
(***************************************************************************)
C13_SegmentIsLongestPcharRun ==
    pc = "segmented"
        => parser.cursor + 1 = GrammarSegmentEnd(parser.bytes, SegmentStart + 1)

\* bs without its last byte when that byte is '/'
StripOneSlash(bs) ==
    IF bs # <<>> /\ bs[Len(bs)] = Slash THEN SubSeq(bs, 1, Len(bs) - 1) ELSE bs

(***************************************************************************)
(* C14.  Router::route hands Path::matches the request URI path with       *)
(* exactly one trailing '/' stripped, the path "/" unchanged; a path       *)
(* ending in several '/' loses only the last one, and the path passed for  *)
(* a URI path that begins with '/' still begins with '/'.                  *)
(***************************************************************************)
C14_RouteStripsOneSlash ==
    (pc = "serving" /\ matched # NotMatched)
        => /\ request = (IF uri = <<Slash>> THEN uri ELSE StripOneSlash(uri))
           /\ (uri # <<>> /\ uri[1] = Slash) => (request # <<>> /\ request[1] = Slash)

====
